---- MODULE Spec2Model ----
(***************************************************************************)
(* UDP unicast link layer of zenoh (io/zenoh-links/zenoh-link-udp):        *)
(* LinkManagerUnicastUdp (listener registry), the accept/demux task        *)
(* accept_read_task, and LinkUnicastUdpUnconnected (per-peer links fed by  *)
(* the task through an Mvar, with a leftover cursor for short reads).      *)
(*                                                                         *)
(* One bound socket address S is modelled; successive listeners on S are   *)
(* numbered 1..MaxListeners.  Remote peers are the elements of Peers.      *)
(* A datagram is identified by the order in which recv_from returned it.   *)
(***************************************************************************)
EXTENDS Integers, Sequences, FiniteSets, TLC

\* ---- bounds of the model ----
MaxListeners == 2      \* listeners ever created on the address
MaxLinks     == 2      \* Unconnected links ever created
MaxDgrams    == 3      \* datagrams ever returned by recv_from
FewDgrams    == 2      \* the same, where reading and teardown are explored
MaxLen       == 2      \* largest datagram length
MaxBuf       == 2      \* largest read buffer length
SinkCap      == 1      \* capacity of the NewLinkSink channel

\* ---- program constant ----
\* (variant: a pool of two buffers)
PoolSize2 == 1 + 1
\* RecyclingObjectPool::new(1, ...)
PoolSize == 1

Peers     == {"P1", "P2"}
Readers   == {"r1", "r2"}
Listeners == 1..MaxListeners
Links     == 1..MaxLinks
Dgrams    == 1..MaxDgrams
None      == <<>>

\* EndPoint of a listener: <<address the socket is bound to, locator metadata>>
BindIps   == {"0.0.0.0", "::", "10.0.0.1"}
Metas     == {"", "a=1"}
EndPoints == BindIps \X Metas

VARIABLES
    \* LinkManagerUnicastUdp
    registry,   \* listeners: the listener registered under S (0: no entry)
    nextL,      \* number of listeners created so far
    nlpc,       \* new_listener(l): "none" | "spawned" | "done"
    delpc,      \* del_listener on l: "none" | "store" | "trigger" | "await" | "returned"
    \* ListenerUnicastUdp
    active,     \* active: AtomicBool
    signal,     \* signal: Signal (TRUE once triggered)
    sockOwner,  \* listener whose task owns the socket bound to S (0: unbound)
    \* accept_read_task
    tpc,        \* position of the task of listener l
    tres,       \* result of the task: "none" | "ok" | "err"
    pool,       \* buffers available in the task's RecyclingObjectPool
    buff,       \* datagram in the task's `buff` (0: none)
    res,        \* link looked up / just created by the task (0: none)
    table,      \* links: HashMap<(src, dst), Weak<..>>, per listener, keyed by dst
    \* LinkUnicastUdp (Unconnected)
    nextK,      \* number of links created so far
    lis,        \* listener that created link k (0: not created)
    dst,        \* dst_addr of link k
    ref,        \* who holds the strong reference: "none"|"task"|"sink"|"held"|"dead"
    input,      \* input: Mvar<(buffer, len)>: <<d, len>> or None
    leftover,   \* leftover: Option<(buffer, start, len)>: <<d, start, len>> or None
    \* NewLinkChannelSender
    sink,       \* links in the channel
    sinkOpen,   \* the receiver still exists
    \* network
    nextD,      \* number of datagrams received so far
    dgSender,   \* sender address of datagram d
    dgLen,      \* length of datagram d
    \* readers (tasks of the session layer calling read)
    rpc,        \* "idle" | "lock" (waits for the leftover lock)
                \* | "take" (holds the leftover lock, waits on input.take())
    rlink,      \* link being read
    rbuf,       \* buffer.len() of the read
    \* history
    fate,       \* "none" | "inhand" | "delivered" | "stale"
    delivered,  \* datagrams put into link k's rendezvous, in order
    taken,      \* datagrams taken from link k's rendezvous by read, in order
    readLog,    \* bytes returned so far by reads for datagram d
    first,      \* datagram for which link k was created
    published,  \* link k was sent to the NewLinkSink
    closed,     \* close was called on link k
    \* writers (tasks of the session layer calling write)
    wpc,        \* write on link k: "idle" | "send" (in send_to, holding the upgraded socket)
    wres,       \* result of the last write on link k: "none" | "ok" | "ioerr" | "gone"
    \* manager API
    notFound,   \* last del_listener call that returned not-found: the listeners deleted
                \* and the listeners running at the time (None: no such call)
    lep,        \* endpoint of listener l: <<bound ip, metadata>>
    host,       \* last get_local_addresses(): <<addresses of the host, call succeeded>>
    locs,       \* result of the last get_locators(): sequence of locators
    conn,       \* Connected links returned by new_link: <<endpoint metadata, dst_locator metadata>>
    cclosed,    \* Connected links on which close was called
    \* read_exact calls
    xpc,        \* "idle" | "loop" | "take" | "done"
    xlink,      \* link being read
    xlen,       \* buffer.len() of the call
    xbytes,     \* bytes copied into the buffer so far
    xfrom       \* bytes the link's reads had returned when the call started

mgrVars  == <<registry, nextL, nlpc, delpc, active, signal, sockOwner>>
taskVars == <<tpc, tres, pool, buff, res, table>>
linkVars == <<nextK, lis, dst, ref, input, leftover>>
sinkVars == <<sink, sinkOpen>>
netVars  == <<nextD, dgSender, dgLen>>
rdVars   == <<rpc, rlink, rbuf>>
histVars == <<fate, delivered, taken, readLog, first, published, closed>>
wrVars   == <<wpc, wres>>
apiVars  == <<notFound, lep, host, locs, conn, cclosed>>
rxVars   == <<xpc, xlink, xlen, xbytes, xfrom>>
extVars  == <<wrVars, apiVars, rxVars>>
vars == <<mgrVars, taskVars, linkVars, sinkVars, netVars, rdVars, histVars, extVars>>

Min(a, b) == IF a < b THEN a ELSE b

\* ---- datagram contents ----
\* byte i (1-based) of the receive buffer after recv_from stored datagram d:
\* the datagram's bytes, then the zeroes of vec![0_u8; UDP_MAX_MTU]
SliceByte(d, i) == IF i <= dgLen[d] THEN 10 * d + i ELSE 0
Payload(d) == [i \in 1..dgLen[d] |-> 10 * d + i]
IsPrefix(s, t) == Len(s) <= Len(t) /\ \A i \in 1..Len(s) : s[i] = t[i]

\* ---- RecyclingObjectPool ----
LoopPcs == {"loop", "take", "recv", "throttle", "lookup", "send", "upgrade"}
\* the pool is a local of accept_read_task: it exists while the task is in its loop
PoolAlive(l) == tpc[l] \in LoopPcs
\* take() yields a pooled buffer, waiting while none is available
PoolCanTake(l) == pool[l] > 0
\* recycle() / drop of a RecyclingObject: back to the pool if it still exists;
\* no-op on a full pool
Recycle(p, l, cnt) ==
    [p EXCEPT ![l] = IF PoolAlive(l) THEN Min(@ + cnt, PoolSize) ELSE @]

\* ---- Mvar ----
\* number of buffers link k holds (rendezvous and leftover cursor)
HeldBuffers(k) == (IF input[k] # None THEN 1 ELSE 0) + (IF leftover[k] # None THEN 1 ELSE 0)

\* ---- link table macros of accept_read_task ----
\* (variant: the lookup finds nothing)
zgetlink_miss(l, p) == 0
\* (variant: the lookup ignores the peer address)
zgetlink_anyPeer(l, p) == table[l]["P1"]
zgetlink(l, p) == table[l][p]
zaddlink(l, p, k) == [table EXCEPT ![l][p] = k]
\* (variant: the entry is left in place)
zdellink_keep(l, p) == table
zdellink(l, p) == [table EXCEPT ![l][p] = 0]

\* Weak::upgrade succeeds while a strong reference exists
Upgrade(k) == ref[k] \in {"task", "sink", "held"}

\* ---- the listener socket: Arc<UdpSocket> of accept_read_task ----
\* a write in send_to holds the socket it upgraded
WriteHoldsSocket(l) == \E k \in Links : lis[k] = l /\ wpc[k] = "send"
\* the socket of listener l exists while a strong reference to it exists
SocketOpen(l) == sockOwner = l \/ WriteHoldsSocket(l)

Init ==
    /\ registry = 0 /\ nextL = 0
    /\ nlpc = [l \in Listeners |-> "none"]
    /\ delpc = [l \in Listeners |-> "none"]
    /\ active = [l \in Listeners |-> FALSE]
    /\ signal = [l \in Listeners |-> FALSE]
    /\ sockOwner = 0
    /\ tpc = [l \in Listeners |-> "none"]
    /\ tres = [l \in Listeners |-> "none"]
    /\ pool = [l \in Listeners |-> 0]
    /\ buff = [l \in Listeners |-> 0]
    /\ res = [l \in Listeners |-> 0]
    /\ table = [l \in Listeners |-> [p \in Peers |-> 0]]
    /\ nextK = 0
    /\ lis = [k \in Links |-> 0]
    /\ dst = [k \in Links |-> "none"]
    /\ ref = [k \in Links |-> "none"]
    /\ input = [k \in Links |-> None]
    /\ leftover = [k \in Links |-> None]
    /\ sink = <<>> /\ sinkOpen = TRUE
    /\ nextD = 0
    /\ dgSender = [d \in Dgrams |-> "none"]
    /\ dgLen = [d \in Dgrams |-> 0]
    /\ rpc = [r \in Readers |-> "idle"]
    /\ rlink = [r \in Readers |-> 0]
    /\ rbuf = [r \in Readers |-> 0]
    /\ fate = [d \in Dgrams |-> "none"]
    /\ delivered = [k \in Links |-> <<>>]
    /\ taken = [k \in Links |-> <<>>]
    /\ readLog = [d \in Dgrams |-> <<>>]
    /\ first = [k \in Links |-> 0]
    /\ published = [k \in Links |-> FALSE]
    /\ closed = [k \in Links |-> FALSE]
    /\ wpc = [k \in Links |-> "idle"]
    /\ wres = [k \in Links |-> "none"]
    /\ notFound = None
    /\ lep = [l \in Listeners |-> <<"none", "">>]
    /\ host = None
    /\ locs = <<>>
    /\ conn = {}
    /\ cclosed = {}
    /\ xpc = [r \in Readers |-> "idle"]
    /\ xlink = [r \in Readers |-> 0]
    /\ xlen = [r \in Readers |-> 0]
    /\ xbytes = [r \in Readers |-> <<>>]
    /\ xfrom = [r \in Readers |-> 0]


\* ---- LinkManagerUnicastUdp::new_listener ----
\* bind the socket, create active/signal, spawn the task (the registry insert
\* comes later, in NewListenerInsert)
NewListenerSpawn(l, e) ==
    /\ l = nextL + 1 /\ nextL < MaxListeners
    /\ l > 1 => e[1] = lep[1][1]             \* the one address S of the model
    /\ \A j \in Listeners : ~SocketOpen(j)   \* UdpSocket::bind(addr) succeeds
    /\ nextL' = l
    /\ sockOwner' = l
    /\ active' = [active EXCEPT ![l] = TRUE]
    /\ tpc' = [tpc EXCEPT ![l] = "start"]
    /\ nlpc' = [nlpc EXCEPT ![l] = "spawned"]
    /\ UNCHANGED <<registry, delpc, signal, tres, pool, buff, res, table>>
    /\ UNCHANGED <<linkVars, sinkVars, netVars, rdVars, histVars>>
    /\ lep' = [lep EXCEPT ![l] = e]
    /\ UNCHANGED <<notFound, host, locs, conn, cclosed, wrVars, rxVars>>

\* zwrite!(self.listeners).insert(local_addr, listener)
NewListenerInsert(l) ==
    /\ nlpc[l] = "spawned"
    /\ registry' = l
    /\ nlpc' = [nlpc EXCEPT ![l] = "done"]
    /\ UNCHANGED <<nextL, delpc, active, signal, sockOwner>>
    /\ UNCHANGED <<taskVars, linkVars, sinkVars, netVars, rdVars, histVars>>
    /\ UNCHANGED extVars

\* ---- LinkManagerUnicastUdp::del_listener ----
\* (variant: a listener is found whether registered or not)
Found_unregistered(l) == nlpc[l] = "done"
\* zwrite!(self.listeners).remove(&addr) yields listener l
Found(l) == registry = l /\ l # 0

\* the remove yields None: the not-found error is returned.  a is the address
\* of the call: S, or an address no listener was bound to
DelListenerNotFound(a) ==
    /\ a = "other" \/ \A l \in Listeners : ~Found(l)
    /\ notFound' = <<{l \in Listeners : delpc[l] = "returned"},
                     {l \in Listeners : tpc[l] \in LoopPcs}>>
    /\ UNCHANGED <<lep, host, locs, conn, cclosed, wrVars, rxVars>>
    /\ UNCHANGED <<mgrVars, taskVars, linkVars, sinkVars, netVars, rdVars, histVars>>

\* the remove yields the listener found under the address
DelListenerRemove(l) ==
    /\ Found(l)
    /\ registry' = 0
    /\ delpc' = [delpc EXCEPT ![l] = "store"]
    /\ UNCHANGED <<nextL, nlpc, active, signal, sockOwner>>
    /\ UNCHANGED <<taskVars, linkVars, sinkVars, netVars, rdVars, histVars>>
    /\ UNCHANGED extVars

\* listener.active.store(false, Ordering::Release)
DelListenerStore(l) ==
    /\ delpc[l] = "store"
    /\ active' = [active EXCEPT ![l] = FALSE]
    /\ delpc' = [delpc EXCEPT ![l] = "trigger"]
    /\ UNCHANGED <<registry, nextL, nlpc, signal, sockOwner>>
    /\ UNCHANGED <<taskVars, linkVars, sinkVars, netVars, rdVars, histVars>>
    /\ UNCHANGED extVars

\* listener.signal.trigger()
DelListenerTrigger(l) ==
    /\ delpc[l] = "trigger"
    /\ signal' = [signal EXCEPT ![l] = TRUE]
    /\ delpc' = [delpc EXCEPT ![l] = "await"]
    /\ UNCHANGED <<registry, nextL, nlpc, active, sockOwner>>
    /\ UNCHANGED <<taskVars, linkVars, sinkVars, netVars, rdVars, histVars>>
    /\ UNCHANGED extVars

\* (variant: the handle is not awaited)
HandleDone_noWait(l) == TRUE
\* the JoinHandle is ready once the spawned block (task and registry removal) ended
HandleDone(l) == tpc[l] = "done"

\* listener.handle.await
DelListenerAwait(l) ==
    /\ delpc[l] = "await"
    /\ HandleDone(l)
    /\ delpc' = [delpc EXCEPT ![l] = "returned"]
    /\ UNCHANGED <<registry, nextL, nlpc, active, signal, sockOwner>>
    /\ UNCHANGED <<taskVars, linkVars, sinkVars, netVars, rdVars, histVars>>
    /\ UNCHANGED extVars

\* ---- accept_read_task ----
\* return from accept_read_task: socket and pool are dropped; the wrapper's
\* registry removal is still to come
TaskReturn(l, r) ==
    /\ tpc' = [tpc EXCEPT ![l] = "exited"]
    /\ tres' = [tres EXCEPT ![l] = r]
    /\ sockOwner' = 0
    /\ pool' = [pool EXCEPT ![l] = 0]
    /\ buff' = [buff EXCEPT ![l] = 0]
    /\ res' = [res EXCEPT ![l] = 0]

\* socket.local_addr()? and creation of the pool
TaskStart(l) ==
    /\ tpc[l] = "start"
    /\ \/ /\ tpc' = [tpc EXCEPT ![l] = "loop"]
          /\ pool' = [pool EXCEPT ![l] = PoolSize]
          /\ UNCHANGED <<tres, buff, res, sockOwner>>
       \/ TaskReturn(l, "err")
    /\ UNCHANGED <<registry, nextL, nlpc, delpc, active, signal, table>>
    /\ UNCHANGED <<linkVars, sinkVars, netVars, rdVars, histVars>>
    /\ UNCHANGED extVars

\* while active.load(Ordering::Acquire)
TaskLoop(l) ==
    /\ tpc[l] = "loop"
    /\ IF active[l]
       THEN /\ tpc' = [tpc EXCEPT ![l] = "take"]
            /\ UNCHANGED <<tres, buff, res, sockOwner, pool>>
       ELSE TaskReturn(l, "ok")
    /\ UNCHANGED <<registry, nextL, nlpc, delpc, active, signal, table>>
    /\ UNCHANGED <<linkVars, sinkVars, netVars, rdVars, histVars>>
    /\ UNCHANGED extVars

\* let mut buff = pool.take().await
TaskTake(l) ==
    /\ tpc[l] = "take"
    /\ PoolCanTake(l)
    /\ pool' = [pool EXCEPT ![l] = @ - 1]
    /\ tpc' = [tpc EXCEPT ![l] = "recv"]
    /\ UNCHANGED <<tres, buff, res, table>>
    /\ UNCHANGED <<mgrVars, linkVars, sinkVars, netVars, rdVars, histVars>>
    /\ UNCHANGED extVars

\* the race yields Action::Receive((n, addr)): datagram of n bytes from peer p
TaskRecv(l, p, n) ==
    /\ tpc[l] = "recv"
    /\ nextD < MaxDgrams /\ nextK < MaxLinks
    /\ LET d == nextD + 1 IN
        /\ nextD' = d
        /\ dgSender' = [dgSender EXCEPT ![d] = p]
        /\ dgLen' = [dgLen EXCEPT ![d] = n]
        /\ fate' = [fate EXCEPT ![d] = "inhand"]
        /\ buff' = [buff EXCEPT ![l] = d]
    /\ tpc' = [tpc EXCEPT ![l] = "lookup"]
    /\ UNCHANGED <<tres, pool, res, table>>
    /\ UNCHANGED <<delivered, taken, readLog, first, published, closed>>
    /\ UNCHANGED <<mgrVars, linkVars, sinkVars, rdVars>>
    /\ UNCHANGED extVars

\* (variant: the error ends the task)
AfterRecvErr_exit == "exited"
\* position of the task after the race yielded Err(e): the throttle sleep
AfterRecvErr == "throttle"

\* the race yields Err(e): log, then task::sleep(UDP_ACCEPT_THROTTLE_TIME)
TaskRecvErr(l) ==
    /\ tpc[l] = "recv"
    /\ tpc' = [tpc EXCEPT ![l] = AfterRecvErr]
    /\ UNCHANGED <<tres, pool, buff, res, table>>
    /\ UNCHANGED <<mgrVars, linkVars, sinkVars, netVars, rdVars, histVars>>
    /\ UNCHANGED extVars

\* the sleep is over: continue; buff is dropped at the end of the iteration
TaskThrottle(l) ==
    /\ tpc[l] = "throttle"
    /\ pool' = Recycle(pool, l, 1)
    /\ tpc' = [tpc EXCEPT ![l] = "loop"]
    /\ UNCHANGED <<tres, buff, res, table>>
    /\ UNCHANGED <<mgrVars, linkVars, sinkVars, netVars, rdVars, histVars>>
    /\ UNCHANGED extVars

\* the race yields Action::Stop: break
TaskStop(l) ==
    /\ tpc[l] = "recv"
    /\ signal[l]
    /\ TaskReturn(l, "ok")
    /\ UNCHANGED <<registry, nextL, nlpc, delpc, active, signal, table>>
    /\ UNCHANGED <<linkVars, sinkVars, netVars, rdVars, histVars>>
    /\ UNCHANGED extVars

\* (variant: the datagram is handed to the new link at once)
AfterCreate_put == "upgrade"
\* position of the task after zaddlink!: the link is sent to the manager
AfterCreate == "send"

\* zgetlink!(src_addr, dst_addr); on None a link is created and inserted
TaskLookup(l) ==
    /\ tpc[l] = "lookup"
    /\ LET p == dgSender[buff[l]]
           k == zgetlink(l, p)
       IN IF k # 0
          THEN /\ res' = [res EXCEPT ![l] = k]
               /\ tpc' = [tpc EXCEPT ![l] = "upgrade"]
               /\ UNCHANGED <<table, nextK, lis, dst, ref, first>>
          ELSE /\ nextK < MaxLinks
               /\ LET n == nextK + 1 IN
                    /\ nextK' = n
                    /\ lis' = [lis EXCEPT ![n] = l]
                    /\ dst' = [dst EXCEPT ![n] = p]
                    /\ ref' = [ref EXCEPT ![n] = "task"]
                    /\ first' = [first EXCEPT ![n] = buff[l]]
                    /\ table' = zaddlink(l, p, n)
                    /\ res' = [res EXCEPT ![l] = n]
               /\ tpc' = [tpc EXCEPT ![l] = AfterCreate]
    /\ UNCHANGED <<tres, pool, buff, input, leftover>>
    /\ UNCHANGED <<fate, delivered, taken, readLog, published, closed>>
    /\ UNCHANGED <<mgrVars, sinkVars, netVars, rdVars>>
    /\ UNCHANGED extVars

\* (variant: the task goes on to the next datagram)
AfterSend_next == "loop"
\* position of the task after manager.send_async(..): the enclosing `loop`
\* runs zgetlink again with the same datagram
AfterSend == "lookup"

\* manager.send_async(LinkUnicast(link)).await; an error is logged and the
\* link dropped
TaskSend(l) ==
    /\ tpc[l] = "send"
    /\ LET k == res[l] IN
        IF sinkOpen
        THEN /\ Len(sink) < SinkCap
             /\ sink' = Append(sink, k)
             /\ ref' = [ref EXCEPT ![k] = "sink"]
             /\ published' = [published EXCEPT ![k] = TRUE]
        ELSE /\ ref' = [ref EXCEPT ![k] = "dead"]
             /\ UNCHANGED <<sink, published>>
    /\ tpc' = [tpc EXCEPT ![l] = AfterSend]
    /\ res' = [res EXCEPT ![l] = 0]
    /\ UNCHANGED <<tres, pool, buff, table, sinkOpen>>
    /\ UNCHANGED <<nextK, lis, dst, input, leftover>>
    /\ UNCHANGED <<fate, delivered, taken, readLog, first, closed>>
    /\ UNCHANGED <<mgrVars, netVars, rdVars>>
    /\ UNCHANGED extVars


\* ---- Mvar (zenoh_sync) ----
\* put(v): store v in the slot, replacing a value that is present
MvarPut(k, v) == [input EXCEPT ![k] = v]
\* take(): waits until the slot holds a value
MvarCanTake(k) == input[k] # None

\* LinkUnicastUdpUnconnected::received(buffer, len)
received(k, d) == MvarPut(k, <<d, dgLen[d]>>)

\* break link.upgrade(), then match link { Some => received, None => zdellink }
TaskDispatch(l) ==
    /\ tpc[l] = "upgrade"
    /\ LET k == res[l]
           d == buff[l]
       IN IF Upgrade(k)
          THEN /\ input' = received(k, d)
               /\ delivered' = [delivered EXCEPT ![k] = Append(@, d)]
               /\ fate' = [fate EXCEPT ![d] = "delivered"]
               \* a value replaced in the slot is dropped
               /\ pool' = Recycle(pool, l, IF input[k] # None THEN 1 ELSE 0)
               /\ UNCHANGED table
          ELSE /\ table' = zdellink(l, dgSender[d])
               /\ fate' = [fate EXCEPT ![d] = "stale"]
               /\ pool' = Recycle(pool, l, 1)       \* buff is dropped
               /\ UNCHANGED <<input, delivered>>
    /\ tpc' = [tpc EXCEPT ![l] = "loop"]
    /\ buff' = [buff EXCEPT ![l] = 0]
    /\ res' = [res EXCEPT ![l] = 0]
    /\ UNCHANGED <<tres, nextK, lis, dst, ref, leftover>>
    /\ UNCHANGED <<taken, readLog, first, published, closed>>
    /\ UNCHANGED <<mgrVars, sinkVars, netVars, rdVars>>
    /\ UNCHANGED extVars

\* the spawned block after accept_read_task: zwrite!(c_listeners).remove(&c_addr)
TaskWrapper(l) ==
    /\ tpc[l] = "exited"
    /\ registry' = 0
    /\ tpc' = [tpc EXCEPT ![l] = "done"]
    /\ UNCHANGED <<nextL, nlpc, delpc, active, signal, sockOwner>>
    /\ UNCHANGED <<tres, pool, buff, res, table>>
    /\ UNCHANGED <<linkVars, sinkVars, netVars, rdVars, histVars>>
    /\ UNCHANGED extVars

\* ---- session layer: owner of the published links ----
\* the last strong reference to the links of K goes away: their buffers are dropped
DropLinks(K) ==
    /\ ref' = [k \in Links |-> IF k \in K THEN "dead" ELSE ref[k]]
    /\ input' = [k \in Links |-> IF k \in K THEN None ELSE input[k]]
    /\ leftover' = [k \in Links |-> IF k \in K THEN None ELSE leftover[k]]
    /\ pool' = [l \in Listeners |->
                 IF PoolAlive(l)
                 THEN Min(pool[l] + Cardinality({k \in K : lis[k] = l /\ input[k] # None})
                                  + Cardinality({k \in K : lis[k] = l /\ leftover[k] # None}),
                          PoolSize)
                 ELSE pool[l]]

\* the session layer receives a link from the NewLinkSink
SessionRecv ==
    /\ sinkOpen /\ sink # <<>>
    /\ ref' = [ref EXCEPT ![Head(sink)] = "held"]
    /\ sink' = Tail(sink)
    /\ UNCHANGED <<nextK, lis, dst, input, leftover, sinkOpen>>
    /\ UNCHANGED <<mgrVars, taskVars, netVars, rdVars, histVars>>
    /\ UNCHANGED extVars

\* the session layer drops its link (no read or write in progress on it)
SessionDrop(k) ==
    /\ ref[k] = "held"
    /\ wpc[k] = "idle"
    /\ \A r \in Readers : ~(rpc[r] \in {"lock", "take"} /\ rlink[r] = k)
    /\ \A r \in Readers : ~(xpc[r] \in {"loop", "take"} /\ xlink[r] = k)
    /\ DropLinks({k})
    /\ UNCHANGED <<nextK, lis, dst, tpc, tres, buff, res, table>>
    /\ UNCHANGED <<mgrVars, sinkVars, netVars, rdVars, histVars>>
    /\ UNCHANGED extVars

\* the receiving end of the NewLinkSink is dropped, with the links still in it
SinkClose ==
    /\ sinkOpen
    /\ sinkOpen' = FALSE
    /\ sink' = <<>>
    /\ DropLinks({sink[i] : i \in 1..Len(sink)})
    /\ UNCHANGED <<nextK, lis, dst, tpc, tres, buff, res, table>>
    /\ UNCHANGED <<mgrVars, netVars, rdVars, histVars>>
    /\ UNCHANGED extVars

\* (variant: every entry of the listener's table is removed)
CloseRemove_all(k) == [table EXCEPT ![lis[k]] = [p \in Peers |-> 0]]
\* LinkUnicastUdpUnconnected::close: zlock!(self.links).remove(&(src_addr, dst_addr))
CloseRemove(k) == [table EXCEPT ![lis[k]][dst[k]] = 0]

LinkClose(k) ==
    /\ ref[k] = "held"
    /\ table' = CloseRemove(k)
    /\ closed' = [closed EXCEPT ![k] = TRUE]
    /\ UNCHANGED <<tpc, tres, pool, buff, res>>
    /\ UNCHANGED <<fate, delivered, taken, readLog, first, published>>
    /\ UNCHANGED <<mgrVars, linkVars, sinkVars, netVars, rdVars>>
    /\ UNCHANGED extVars

\* ---- LinkManagerUnicastUdp::new_link, Connected links ----
\* a Locator is <<address, metadata>>
\* socket_addr_to_udp_locator(&addr): the locator of a socket address
socket_addr_to_udp_locator(addr) == <<addr, "">>

\* LinkUnicastUdp::new(src_addr, dst_addr, variant): the dst_locator
DstLocator(dst_addr) == socket_addr_to_udp_locator(dst_addr)

\* new_link(endpoint): bind, connect to the endpoint's address, build the
\* Connected link.  A link is recorded as <<endpoint, dst_locator>>
NewLink(e) ==
    /\ conn' = conn \cup {<<e, DstLocator(e[1])>>}
    /\ UNCHANGED <<notFound, lep, host, locs, cclosed, wrVars, rxVars>>
    /\ UNCHANGED <<mgrVars, taskVars, linkVars, sinkVars, netVars, rdVars, histVars>>

\* LinkUnicastUdpConnected::close: Ok(())
ConnectedClose(c) ==
    /\ c \in conn
    /\ cclosed' = cclosed \cup {c}
    /\ UNCHANGED <<notFound, lep, host, locs, conn, wrVars, rxVars>>
    /\ UNCHANGED <<mgrVars, taskVars, linkVars, sinkVars, netVars, rdVars, histVars>>

\* ---- LinkManagerUnicastUdp::get_locators ----
\* addresses a host may have, and the std::net::IpAddr predicates
HostAddrs == {"127.0.0.1", "10.0.0.1", "224.0.0.1", "::1", "fe80::1"}
is_ipv4(a) == a \in {"0.0.0.0", "127.0.0.1", "10.0.0.1", "224.0.0.1"}
is_ipv6(a) == a \in {"::", "::1", "fe80::1"}
is_loopback(a) == a \in {"127.0.0.1", "::1"}
is_multicast(a) == a \in {"224.0.0.1"}
\* port of the address S
ListenPort == "7447"

\* the elements of a set in the order of an iteration over it
RECURSIVE IterOrder(_)
IterOrder(A) ==
    IF A = {} THEN <<>>
    ELSE LET x == CHOOSE y \in A : TRUE IN <<x>> \o IterOrder(A \ {x})

\* (variant: the family of the address is not looked at)
PushedV4_anyFamily(a) == ~is_loopback(a) /\ ~is_multicast(a)
\* !ipaddr.is_loopback() && !ipaddr.is_multicast() && ipaddr.is_ipv4()
PushedV4(a) == ~is_loopback(a) /\ ~is_multicast(a) /\ is_ipv4(a)
\* !ipaddr.is_loopback() && !ipaddr.is_multicast() && ipaddr.is_ipv6()
PushedV6(a) == ~is_loopback(a) /\ ~is_multicast(a) /\ is_ipv6(a)

\* Locator::new(UDP_LOCATOR_PREFIX, &SocketAddr::new(ipaddr, key.port())) with
\* l.metadata = value.endpoint.locator.metadata.clone()
ExpandedLocator(a, l) == <<<<a, ListenPort>>, lep[l][2]>>
\* value.endpoint.locator: the endpoint's locator with the bound address
ListenerLocator(l) == <<<<lep[l][1], ListenPort>>, lep[l][2]>>

\* the locators pushed for the registered listener l; A, ok: the result of
\* zenoh_util::net::get_local_addresses() (Ok(addresses) or Err)
LocatorsOf(l, A, ok) ==
    LET ipaddrs == IterOrder(A)
        key_ip == lep[l][1]
    IN IF key_ip = "0.0.0.0"
       THEN IF ok
            THEN LET sel == SelectSeq(ipaddrs, PushedV4)
                 IN [i \in 1..Len(sel) |-> ExpandedLocator(sel[i], l)]
            ELSE <<>>
       ELSE IF key_ip = "::"
       THEN IF ok
            THEN LET sel == SelectSeq(ipaddrs, PushedV6)
                 IN [i \in 1..Len(sel) |-> ExpandedLocator(sel[i], l)]
            ELSE <<>>
       ELSE <<ListenerLocator(l)>>

\* get_locators() on a host with the addresses A
GetLocators(A, ok) ==
    /\ locs' = IF registry = 0 THEN <<>> ELSE LocatorsOf(registry, A, ok)
    /\ host' = <<A, ok>>
    /\ UNCHANGED <<notFound, lep, conn, cclosed, wrVars, rxVars>>
    /\ UNCHANGED <<mgrVars, taskVars, linkVars, sinkVars, netVars, rdVars, histVars>>

\* ---- LinkUnicastUdpUnconnected::write ----
\* match self.socket.upgrade(): Some(socket) goes on to send_to, None bails
\* with "UDP listener has been dropped"
WriteUpgrade(k) ==
    /\ ref[k] = "held"
    /\ wpc[k] = "idle"
    /\ IF SocketOpen(lis[k])
       THEN /\ wpc' = [wpc EXCEPT ![k] = "send"]
            /\ UNCHANGED wres
       ELSE /\ wres' = [wres EXCEPT ![k] = "gone"]
            /\ UNCHANGED wpc
    /\ UNCHANGED <<mgrVars, taskVars, linkVars, sinkVars, netVars, rdVars, histVars>>
    /\ UNCHANGED <<apiVars, rxVars>>

\* socket.send_to(buffer, &dst_addr).await returns; the upgraded socket is dropped
WriteSent(k, r) ==
    /\ wpc[k] = "send"
    /\ wpc' = [wpc EXCEPT ![k] = "idle"]
    /\ wres' = [wres EXCEPT ![k] = r]
    /\ UNCHANGED <<mgrVars, taskVars, linkVars, sinkVars, netVars, rdVars, histVars>>
    /\ UNCHANGED <<apiVars, rxVars>>

\* ---- LinkUnicastUdpUnconnected::read ----
\* (variant: the cursor is not subtracted)
LenMin_noStart(len, start, b) == Min(len, b)
\* let len_min = (len - start).min(buffer.len())
LenMin(len, start, b) == Min(len - start, b)

\* (variant: the buffer is recycled after every read)
KeepLeftover_never(end, len) == FALSE
\* the leftover cursor is kept when the datagram is not drained
KeepLeftover(end, len) == end < len

\* buffer[0..len_min].copy_from_slice(&slice[start..end])
CopiedBytes(t, b) == [j \in 1..LenMin(t[3], t[2], b) |-> SliceByte(t[1], t[2] + j)]

\* copy into the caller's buffer, then store the leftover or recycle the buffer
ReadCopy(k, t, b) ==
    LET d == t[1]
        start == t[2]
        len == t[3]
        len_min == LenMin(len, start, b)
        end == start + len_min
    IN /\ readLog' = [readLog EXCEPT ![d] = @ \o CopiedBytes(t, b)]
       /\ IF KeepLeftover(end, len)
          THEN /\ leftover' = [leftover EXCEPT ![k] = <<d, end, len>>]
               /\ UNCHANGED pool
          ELSE /\ leftover' = [leftover EXCEPT ![k] = None]
               /\ pool' = Recycle(pool, lis[k], 1)

\* (variant: the lock is released before the rendezvous wait)
LeftoverLocked_never(k) == FALSE
\* the leftover mutex of link k is held by a reader waiting on the rendezvous
LeftoverLocked(k) ==
    \E r \in Readers : \/ rpc[r] = "take" /\ rlink[r] = k
                       \/ xpc[r] = "take" /\ xlink[r] = k

\* read(buffer) with buffer.len() = b: lock leftover; with a cursor, copy from it
\* and return; without, go on to input.take() holding the lock
ReadLock(r, k, b) ==
    /\ rpc[r] = "idle"
    /\ ref[k] = "held"
    /\ ~LeftoverLocked(k)
    /\ IF leftover[k] # None
       THEN /\ ReadCopy(k, leftover[k], b)
            /\ UNCHANGED rdVars
       ELSE /\ rpc' = [rpc EXCEPT ![r] = "take"]
            /\ rlink' = [rlink EXCEPT ![r] = k]
            /\ rbuf' = [rbuf EXCEPT ![r] = b]
            /\ UNCHANGED <<readLog, leftover, pool>>
    /\ UNCHANGED <<tpc, tres, buff, res, table, nextK, lis, dst, ref, input>>
    /\ UNCHANGED <<fate, delivered, taken, first, published, closed>>
    /\ UNCHANGED <<mgrVars, sinkVars, netVars>>
    /\ UNCHANGED extVars

\* read(buffer) is called on link k and waits in zasynclock!(self.leftover)
ReadCall(r, k, b) ==
    /\ rpc[r] = "idle"
    /\ ref[k] = "held"
    /\ rpc' = [rpc EXCEPT ![r] = "lock"]
    /\ rlink' = [rlink EXCEPT ![r] = k]
    /\ rbuf' = [rbuf EXCEPT ![r] = b]
    /\ UNCHANGED <<mgrVars, taskVars, linkVars, sinkVars, netVars, histVars>>
    /\ UNCHANGED extVars

\* the waiting read gets the lock: with a cursor, copy from it and return;
\* without, go on to input.take() holding the lock
ReadAcquire(r) ==
    /\ rpc[r] = "lock"
    /\ LET k == rlink[r] IN
        /\ ~LeftoverLocked(k)
        /\ IF leftover[k] # None
           THEN /\ ReadCopy(k, leftover[k], rbuf[r])
                /\ rpc' = [rpc EXCEPT ![r] = "idle"]
                /\ rlink' = [rlink EXCEPT ![r] = 0]
                /\ rbuf' = [rbuf EXCEPT ![r] = 0]
           ELSE /\ rpc' = [rpc EXCEPT ![r] = "take"]
                /\ UNCHANGED <<rlink, rbuf, readLog, leftover, pool>>
    /\ UNCHANGED <<tpc, tres, buff, res, table, nextK, lis, dst, ref, input>>
    /\ UNCHANGED <<fate, delivered, taken, first, published, closed>>
    /\ UNCHANGED <<mgrVars, sinkVars, netVars>>
    /\ UNCHANGED extVars

\* self.input.take().await returned (slice, len); copy from (slice, 0, len)
ReadTake(r) ==
    /\ rpc[r] = "take"
    /\ LET k == rlink[r] IN
        /\ MvarCanTake(k)
        /\ input' = [input EXCEPT ![k] = None]
        /\ taken' = [taken EXCEPT ![k] = Append(@, input[k][1])]
        /\ ReadCopy(k, <<input[k][1], 0, input[k][2]>>, rbuf[r])
    /\ rpc' = [rpc EXCEPT ![r] = "idle"]
    /\ rlink' = [rlink EXCEPT ![r] = 0]
    /\ rbuf' = [rbuf EXCEPT ![r] = 0]
    /\ UNCHANGED <<tpc, tres, buff, res, table, nextK, lis, dst, ref>>
    /\ UNCHANGED <<fate, delivered, first, published, closed>>
    /\ UNCHANGED <<mgrVars, sinkVars, netVars>>
    /\ UNCHANGED extVars

\* the read future is dropped while it waits on the lock or on the rendezvous
ReadCancel(r) ==
    /\ rpc[r] \in {"lock", "take"}
    /\ rpc' = [rpc EXCEPT ![r] = "idle"]
    /\ rlink' = [rlink EXCEPT ![r] = 0]
    /\ rbuf' = [rbuf EXCEPT ![r] = 0]
    /\ UNCHANGED <<mgrVars, taskVars, linkVars, sinkVars, netVars, histVars>>
    /\ UNCHANGED extVars

\* ---- LinkUnicastUdp::read_exact ----
\* bytes returned so far by the reads of link k's datagrams
RECURSIVE ReturnedLen(_, _)
ReturnedLen(k, n) == IF n = 0 THEN 0 ELSE ReturnedLen(k, n - 1) + Len(readLog[taken[k][n]])

\* read_exact(buffer) with buffer.len() = b is called on link k
ReadExactStart(r, k, b) ==
    /\ rpc[r] = "idle" /\ xpc[r] \in {"idle", "done"}
    /\ ref[k] = "held"
    /\ xpc' = [xpc EXCEPT ![r] = "loop"]
    /\ xlink' = [xlink EXCEPT ![r] = k]
    /\ xlen' = [xlen EXCEPT ![r] = b]
    /\ xbytes' = [xbytes EXCEPT ![r] = <<>>]
    /\ xfrom' = [xfrom EXCEPT ![r] = ReturnedLen(k, Len(taken[k]))]
    /\ UNCHANGED <<mgrVars, taskVars, linkVars, sinkVars, netVars, rdVars, histVars>>
    /\ UNCHANGED <<wrVars, apiVars>>

\* (variant: one read that returns bytes ends the call)
ExactMore_once(read, len) == read = 0 /\ 0 < len
\* while read < buffer.len()
ExactMore(read, len) == read < len

\* one turn of the loop: self.read(&mut buffer[read..]) up to its copy from
\* the leftover cursor or its wait on the rendezvous; or return Ok(())
ExactLoop(r) ==
    /\ xpc[r] = "loop"
    /\ LET k == xlink[r]
           b == xlen[r] - Len(xbytes[r])
       IN IF ExactMore(Len(xbytes[r]), xlen[r])
          THEN /\ ~LeftoverLocked(k)
               /\ IF leftover[k] # None
                  THEN /\ ReadCopy(k, leftover[k], b)
                       /\ xbytes' = [xbytes EXCEPT ![r] = @ \o CopiedBytes(leftover[k], b)]
                       /\ UNCHANGED xpc
                  ELSE /\ xpc' = [xpc EXCEPT ![r] = "take"]
                       /\ UNCHANGED <<xbytes, readLog, leftover, pool>>
          ELSE /\ xpc' = [xpc EXCEPT ![r] = "done"]
               /\ UNCHANGED <<xbytes, readLog, leftover, pool>>
    /\ UNCHANGED <<xlink, xlen, xfrom>>
    /\ UNCHANGED <<tpc, tres, buff, res, table, nextK, lis, dst, ref, input>>
    /\ UNCHANGED <<fate, delivered, taken, first, published, closed>>
    /\ UNCHANGED <<mgrVars, sinkVars, netVars, rdVars, wrVars, apiVars>>

\* the read of this turn gets its datagram from the rendezvous
ExactTake(r) ==
    /\ xpc[r] = "take"
    /\ LET k == xlink[r]
           b == xlen[r] - Len(xbytes[r])
       IN /\ MvarCanTake(k)
          /\ input' = [input EXCEPT ![k] = None]
          /\ taken' = [taken EXCEPT ![k] = Append(@, input[k][1])]
          /\ ReadCopy(k, <<input[k][1], 0, input[k][2]>>, b)
          /\ xbytes' = [xbytes EXCEPT ![r] = @ \o CopiedBytes(<<input[k][1], 0, input[k][2]>>, b)]
    /\ xpc' = [xpc EXCEPT ![r] = "loop"]
    /\ UNCHANGED <<xlink, xlen, xfrom>>
    /\ UNCHANGED <<tpc, tres, buff, res, table, nextK, lis, dst, ref>>
    /\ UNCHANGED <<fate, delivered, first, published, closed>>
    /\ UNCHANGED <<mgrVars, sinkVars, netVars, rdVars, wrVars, apiVars>>

\* ---- specifications ----
Alive(k) == ref[k] \in {"task", "sink", "held"}
SamePair(j, k) == lis[j] = lis[k] /\ dst[j] = dst[k] /\ lis[j] # 0
\* the places where datagram d has been put into a rendezvous
Deliveries(d) == {<<k, i>> \in Links \X (1..MaxDgrams) : i <= Len(delivered[k]) /\ delivered[k][i] = d}

\* new_listener / del_listener calls for the listeners of Ls, with the
\* endpoints of Es
ManagerCalls(Ls, Es) ==
    \E l \in Ls :
        \/ \E e \in Es : NewListenerSpawn(l, e)
        \/ NewListenerInsert(l)
        \/ DelListenerRemove(l)
        \/ DelListenerStore(l)
        \/ DelListenerTrigger(l)
        \/ DelListenerAwait(l)

ManagerStep(Ls) == ManagerCalls(Ls, {<<"10.0.0.1", "">>})

\* the steps of the task of listener l that need no datagram
TaskOf(l) ==
    \/ TaskStart(l)
    \/ TaskLoop(l)
    \/ TaskTake(l)
    \/ TaskRecvErr(l)
    \/ TaskThrottle(l)
    \/ TaskStop(l)
    \/ TaskLookup(l)
    \/ TaskSend(l)
    \/ TaskDispatch(l)
    \/ TaskWrapper(l)

TaskStep == \E l \in Listeners : TaskOf(l)

\* the steps of the tasks while no datagram arrives
TaskIdleStep ==
    \E l \in Listeners :
        \/ TaskStart(l)
        \/ TaskLoop(l)
        \/ TaskTake(l)
        \/ TaskRecvErr(l)
        \/ TaskThrottle(l)
        \/ TaskStop(l)
        \/ TaskWrapper(l)

\* datagrams from the peers of Ps with a length in Ns
NetStep(Ps, Ns, D) ==
    /\ nextD < D
    /\ \E l \in Listeners, p \in Ps, n \in Ns : TaskRecv(l, p, n)

\* the session layer takes the published links and later drops them
OwnerStep ==
    \/ SessionRecv
    \/ \E k \in Links : SessionDrop(k)

\* the session layer closes links, and may drop the receiving end of the sink
CloseStep ==
    \/ SinkClose
    \/ \E k \in Links : LinkClose(k)

\* new_link calls with the endpoints of Es, and close on the links they returned
ConnectedStep(Es) ==
    \/ \E e \in Es : NewLink(e)
    \/ \E c \in conn : ConnectedClose(c)

\* read_exact calls by the reader tasks of Rs with a buffer length in Bs
ExactStep(Rs, Bs) ==
    \E r \in Rs :
        \/ \E k \in Links, b \in Bs : ReadExactStart(r, k, b)
        \/ ExactLoop(r)
        \/ ExactTake(r)

\* writes on the links held by the session layer
WriteStep ==
    \E k \in Links :
        \/ WriteUpgrade(k)
        \/ \E r \in {"ok", "ioerr"} : WriteSent(k, r)

\* reads by the reader tasks of Rs with a buffer length in Bs
ReadStep(Rs, Bs) ==
    \E r \in Rs :
        \/ \E k \in Links, b \in Bs : ReadLock(r, k, b)
        \/ ReadTake(r)
        \/ ReadCancel(r)

\* reads by several tasks, each waiting its turn at the leftover lock
ConcReadStep(Rs, Bs) ==
    \E r \in Rs :
        \/ \E k \in Links, b \in Bs : ReadCall(r, k, b)
        \/ ReadAcquire(r)
        \/ ReadTake(r)
        \/ ReadCancel(r)

\* Demultiplexing: one listener and its teardown, both peers, every session
\* action; datagrams of MaxLen bytes read whole by one reader.
Next ==
    \/ ManagerStep({1})
    \/ TaskStep
    \/ NetStep(Peers, {MaxLen}, MaxDgrams)
    \/ OwnerStep
    \/ CloseStep
    \/ ReadStep({"r1"}, {MaxLen})

Spec == Init /\ [][Next]_vars

\* Reading: one listener, both peers, datagrams of every length up to MaxLen,
\* read buffers of every length up to MaxBuf.
ReadNext ==
    \/ ManagerStep({1})
    \/ TaskStep
    \/ NetStep(Peers, 0..MaxLen, FewDgrams)
    \/ OwnerStep
    \/ ReadStep({"r1"}, 0..MaxBuf)

ReadSpec == Init /\ [][ReadNext]_vars

\* Listener lifecycle: successive listeners on the address, created and
\* deleted in any interleaving with their tasks; one peer, datagrams read whole.
LifeNext ==
    \/ ManagerStep(Listeners)
    \/ TaskStep
    \/ NetStep({"P1"}, {MaxLen}, FewDgrams)
    \/ OwnerStep
    \/ ReadStep({"r1"}, {MaxLen})

LifeSpec == Init /\ [][LifeNext]_vars

\* Writing: one listener and its teardown, both peers, datagrams read whole,
\* writes on the published links.
WriteNext ==
    \/ ManagerStep({1})
    \/ TaskStep
    \/ NetStep(Peers, {MaxLen}, FewDgrams)
    \/ OwnerStep
    \/ ReadStep({"r1"}, {MaxLen})
    \/ WriteStep

WriteSpec == Init /\ [][WriteNext]_vars

\* Manager calls: successive listeners on the address, del_listener calls
\* that find no listener; no datagram arrives.
ApiNext ==
    \/ ManagerStep(Listeners)
    \/ \E a \in {"S", "other"} : DelListenerNotFound(a)
    \/ TaskIdleStep
    \/ ConnectedStep({"P1"} \X Metas)

ApiSpec == Init /\ [][ApiNext]_vars

\* Closing: one listener and its teardown, both peers, datagrams read whole,
\* close on the published links and on a Connected link.
CloseNext ==
    \/ ManagerStep({1})
    \/ TaskStep
    \/ NetStep(Peers, {MaxLen}, FewDgrams)
    \/ OwnerStep
    \/ ReadStep({"r1"}, {MaxLen})
    \/ \E k \in Links : LinkClose(k)
    \/ ConnectedStep({<<"P1", "a=1">>})

CloseSpec == Init /\ [][CloseNext]_vars

\* Locators: one listener on every endpoint, get_locators on every host; no
\* datagram arrives.
LocNext ==
    \/ ManagerCalls({1}, EndPoints)
    \/ TaskIdleStep
    \/ \E A \in SUBSET HostAddrs, ok \in BOOLEAN : GetLocators(A, ok)

LocSpec == Init /\ [][LocNext]_vars

\* Exact reads: one listener, one peer, datagrams of every length up to
\* MaxLen, read_exact with buffers of every length up to MaxBuf.
ExactNext ==
    \/ ManagerStep({1})
    \/ TaskStep
    \/ NetStep({"P1"}, 0..MaxLen, MaxDgrams)
    \/ OwnerStep
    \/ ExactStep({"r1"}, 0..MaxBuf)

ExactSpec == Init /\ [][ExactNext]_vars

\* Concurrent reads: one listener, one peer, datagrams of every length up to
\* MaxLen, two tasks reading with buffers of every length from 1 to MaxBuf.
ConcNext ==
    \/ ManagerStep({1})
    \/ TaskStep
    \/ NetStep({"P1"}, 0..MaxLen, FewDgrams)
    \/ OwnerStep
    \/ ConcReadStep(Readers, 1..MaxBuf)

ConcSpec == Init /\ [][ConcNext]_vars

\* the steps of del_listener after the registry removal
DelOf(l) == DelListenerStore(l) \/ DelListenerTrigger(l) \/ DelListenerAwait(l)

\* The runtime keeps scheduling a task that can run: the accept/demux task
\* and a del_listener call in progress take their next step when it stays
\* possible.  Nothing is assumed of the network or of the session layer.
FairLifeSpec ==
    /\ LifeSpec
    /\ \A l \in Listeners : WF_vars(TaskOf(l)) /\ WF_vars(DelOf(l))


\* ---- claims ----

\* C1: every delivered datagram is in the rendezvous history of exactly one
\* link, a link of the listener that received it whose dst_addr is the
\* datagram's sender; hence datagrams of distinct peers are on distinct links.
DemuxToSender ==
    \A d \in Dgrams :
        /\ Cardinality(Deliveries(d)) = (IF fate[d] = "delivered" THEN 1 ELSE 0)
        /\ \A x \in Deliveries(d) : dst[x[1]] = dgSender[d] /\ lis[x[1]] # 0

\* two datagrams of distinct peers have been delivered, to two links
TwoPeersDelivered ==
    \E d1, d2 \in Dgrams, k1, k2 \in Links :
        /\ dgSender[d1] = "P1" /\ dgSender[d2] = "P2"
        /\ fate[d1] = "delivered" /\ fate[d2] = "delivered"
        /\ <<k1, 1>> \in Deliveries(d1) /\ <<k2, 1>> \in Deliveries(d2)
        /\ k1 # k2


\* C2: once del_listener has been invoked for a registered listener (it has
\* removed the registry entry), the task completes and del_listener returns,
\* whatever the task was doing, with no help from the network or the readers.
DelListenerReturns ==
    \A l \in Listeners : (delpc[l] = "store") ~> (delpc[l] = "returned")

\* C7: after del_listener has returned successfully for a listener, its task
\* has completed, the listener is not in the registry, and no link of that
\* listener is published any more.
AfterDelListener ==
    /\ [](\A l \in Listeners :
            (delpc[l] = "returned" /\ tres[l] = "ok") => (tpc[l] = "done" /\ registry # l))
    /\ [][\A l \in Listeners :
            (delpc[l] = "returned" /\ tres[l] = "ok") =>
                \A k \in Links : (lis'[k] = l) => (lis[k] = l /\ published'[k] = published[k])]_vars

\* del_listener has returned successfully for a listener that had published a link
DeletedAfterPublish ==
    \E l \in Listeners, k \in Links :
        delpc[l] = "returned" /\ tres[l] = "ok" /\ lis[k] = l /\ published[k]

\* C10: once the task of a listener has completed, whatever its exit path,
\* the registry holds no entry for that listener.
DoneNotRegistered ==
    \A l \in Listeners : tpc[l] = "done" => registry # l


\* buffers of listener l's pool that are outside it: the task's buff and the
\* buffers in the rendezvous or leftover cursor of its links
Outside(l) ==
    (IF tpc[l] \in {"recv", "throttle", "lookup", "send", "upgrade"} THEN 1 ELSE 0)
    + Cardinality({k \in Links : lis[k] = l /\ input[k] # None})
    + Cardinality({k \in Links : lis[k] = l /\ leftover[k] # None})
LinkHoldsBuffer(l) == \E k \in Links : lis[k] = l /\ HeldBuffers(k) > 0

\* C4: at most one receive buffer of a listener is outside its pool; while a
\* link holds it (datagram unread or not drained) the pool is empty, so the
\* task cannot take a buffer and is not in recv_from.
OneBufferInFlight ==
    \A l \in Listeners :
        /\ Outside(l) <= 1
        /\ LinkHoldsBuffer(l) => (pool[l] = 0 /\ tpc[l] # "recv")

\* the task waits for a buffer while a link holds a partly read datagram
BlockedOnLeftover ==
    \E l \in Listeners, k \in Links :
        tpc[l] = "take" /\ lis[k] = l /\ leftover[k] # None /\ leftover[k][2] > 0

\* C5: reads return the datagram's bytes in order, min(remaining, buf.len())
\* at a time and from one datagram only; the cursor is where the reads
\* stopped; a drained datagram has been returned whole.
LeftoverCorrect ==
    /\ [](/\ \A d \in Dgrams : IsPrefix(readLog[d], Payload(d))
          /\ \A k \in Links :
                /\ leftover[k] # None =>
                      /\ taken[k] # <<>> /\ leftover[k][1] = taken[k][Len(taken[k])]
                      /\ leftover[k][2] = Len(readLog[leftover[k][1]])
                      /\ leftover[k][3] = dgLen[leftover[k][1]]
                      /\ leftover[k][2] < leftover[k][3]
                /\ \A i \in 1..Len(taken[k]) :
                      (ref[k] # "dead" /\ (leftover[k] = None \/ i < Len(taken[k])))
                          => readLog[taken[k][i]] = Payload(taken[k][i]))
    /\ [][\A r \in Readers, k \in Links, b \in 0..MaxBuf :
            (ReadLock(r, k, b) /\ leftover[k] # None) =>
                LET d == leftover[k][1] IN
                    /\ Len(readLog'[d]) = Len(readLog[d]) + Min(dgLen[d] - Len(readLog[d]), b)
                    /\ \A e \in Dgrams \ {d} : readLog'[e] = readLog[e]]_vars
    /\ [][\A r \in Readers :
            ReadTake(r) =>
                LET d == input[rlink[r]][1] IN
                    /\ Len(readLog'[d]) = Min(dgLen[d], rbuf[r])
                    /\ \A e \in Dgrams \ {d} : readLog'[e] = readLog[e]]_vars

\* a datagram has been partly returned: the cursor stands inside it
PartlyRead ==
    \E k \in Links : leftover[k] # None /\ leftover[k][2] > 0 /\ leftover[k][3] > leftover[k][2]

\* C6: on each link the datagrams are put into the rendezvous in recv_from
\* order, taken by the reads in that order, and none is replaced before it is
\* taken: the reads have taken a prefix of what was delivered and at most the
\* last delivered datagram is still in the rendezvous.
PerLinkOrder ==
    \A k \in Links :
        /\ \A i, j \in 1..Len(delivered[k]) : i < j => delivered[k][i] < delivered[k][j]
        /\ IsPrefix(taken[k], delivered[k])
        /\ Len(delivered[k]) <= Len(taken[k]) + 1
        /\ input[k] # None =>
              /\ Len(delivered[k]) = Len(taken[k]) + 1
              /\ input[k][1] = delivered[k][Len(delivered[k])]
        /\ (input[k] = None /\ ref[k] # "dead") => Len(delivered[k]) = Len(taken[k])

\* two datagrams have been delivered to one link and taken by its reads
TwoTakenInOrder ==
    \E k \in Links : Len(taken[k]) >= 2


\* d was received when the table held no entry for its sender: a link was
\* created for it
FirstSighting(d) == \E k \in Links : first[k] = d

\* C3 (as stated): the first datagram of a peer without table entry is never
\* lost: once the task is done with it, it has been delivered.
FirstDatagramDelivered ==
    \A d \in Dgrams : (FirstSighting(d) /\ fate[d] # "inhand") => fate[d] = "delivered"

\* C3 (amended): the task holds the first datagram of a new peer until it ends
\* the iteration; the datagram is then either delivered to a link created and
\* published for it, as the first datagram of that link and the first its
\* reads return, or dropped because the link last created for it is gone
\* (publish failed, or dropped by the session layer before delivery).
FirstDatagramDeliveredOrLinkGone ==
    /\ \A d \in Dgrams :
          /\ fate[d] = "inhand" =>
                \E l \in Listeners : buff[l] = d /\ tpc[l] \in {"lookup", "send", "upgrade"}
          /\ (FirstSighting(d) /\ fate[d] = "delivered") =>
                \E k \in Links : first[k] = d /\ published[k] /\ <<k, 1>> \in Deliveries(d)
          /\ (FirstSighting(d) /\ fate[d] = "stale") =>
                \E k \in Links :
                    first[k] = d /\ ref[k] = "dead" /\ \A j \in Links : j > k => first[j] # d
    /\ \A k \in Links :
          /\ delivered[k] # <<>> => delivered[k][1] = first[k]
          /\ taken[k] # <<>> =>
                /\ taken[k][1] = first[k]
                /\ readLog[first[k]] # <<>>
                /\ IsPrefix(readLog[first[k]], Payload(first[k]))

\* the first datagram of a new peer has been read from the link published for it
FirstDatagramRead ==
    \E k \in Links :
        /\ published[k] /\ taken[k] # <<>> /\ taken[k][1] = first[k]
        /\ readLog[first[k]] = Payload(first[k])

\* C8 (as stated): no two live published links of a listener have the same
\* (src_addr, dst_addr).
OneLiveLinkPerPair ==
    \A j, k \in Links :
        (j # k /\ SamePair(j, k) /\ published[j] /\ published[k]) => ~(Alive(j) /\ Alive(k))

\* C8 (amended): the task creates a link for a pair only when the table has
\* no entry for that pair; two live links of a listener have the same
\* identity only after close was called on an earlier link of that pair.
OneLinkPerPairUnlessClosed ==
    /\ [](\A j, k \in Links :
            (j < k /\ SamePair(j, k) /\ Alive(j) /\ Alive(k)) =>
                \E c \in Links : c < k /\ SamePair(c, k) /\ closed[c])
    /\ [][nextK' # nextK =>
            \E l \in Listeners :
                tpc[l] = "lookup" /\ table[l][dgSender[buff[l]]] = 0 /\ lis'[nextK'] = l]_vars

\* a second link of a pair is alive next to an earlier one that was closed
SecondLinkAfterClose ==
    \E j, k \in Links :
        j < k /\ SamePair(j, k) /\ Alive(j) /\ Alive(k) /\ closed[j] /\ published[k]

\* C9: when the task finds the table entry of a datagram's sender to refer to
\* a link without strong reference, it removes the entry and drops the
\* datagram: it is delivered to no link and its buffer is back in the pool.
StaleCleanup ==
    /\ [][\A l \in Listeners :
            (tpc[l] = "upgrade" /\ ref[res[l]] = "dead" /\ tpc'[l] # "upgrade") =>
                /\ table'[l][dgSender[buff[l]]] = 0
                /\ fate'[buff[l]] = "stale"
                /\ delivered' = delivered /\ input' = input
                /\ pool'[l] = PoolSize]_vars
    /\ [](\A d \in Dgrams : fate[d] = "stale" => Deliveries(d) = {})

\* after a stale cleanup a fresh link for the same peer has been published
FreshLinkAfterStale ==
    \E j, k \in Links, d \in Dgrams :
        /\ j < k /\ SamePair(j, k) /\ published[j] /\ published[k]
        /\ ref[j] = "dead" /\ ~closed[j] /\ Alive(k)
        /\ fate[d] = "stale" /\ dgSender[d] = dst[j] /\ first[j] < d /\ d < first[k]

\* C11: the task terminates exactly when the active flag is cleared and the
\* stop signal tripped: a terminated task has both, and once both hold the
\* task terminates.
StopsIffStopped ==
    /\ [](\A l \in Listeners : tpc[l] \in {"exited", "done"} => (~active[l] /\ signal[l]))
    /\ \A l \in Listeners : (~active[l] /\ signal[l]) ~> (tpc[l] \in {"exited", "done"})

\* C12: after del_listener has returned for a listener, a write on a link of
\* that listener upgrades no socket: it returns the listener-dropped error and
\* goes on to no send_to.
WriteAfterDelFails ==
    [][\A k \in Links :
        (WriteUpgrade(k) /\ delpc[lis[k]] = "returned") =>
            (wpc'[k] = "idle" /\ wres'[k] = "gone")]_vars

\* C13: a del_listener call that finds no listener under its address changes
\* nothing of the registry, the active flags, the stop signals and the tasks;
\* del_listener stops a listener only if it found it registered, and a
\* listener it was called for is never found again.
NotFoundChangesNothing ==
    /\ [][\A a \in {"S", "other"} :
            DelListenerNotFound(a) =>
                UNCHANGED <<registry, active, signal, delpc, tpc, sockOwner>>]_vars
    /\ [][\A l \in Listeners :
            (delpc'[l] = "store" /\ delpc[l] # "store") => (registry = l /\ registry' = 0)]_vars
    /\ [](\A l \in Listeners : delpc[l] # "none" => registry # l)

\* a del_listener call returned not-found after del_listener had returned for
\* a listener, while a later listener was running, which goes on running
SecondDelNotFound ==
    /\ notFound # <<>>
    /\ \E l \in notFound[1], j \in notFound[2] :
          l # j /\ active[j] /\ ~signal[j] /\ tpc[j] \in LoopPcs

\* C14: while the pool exists its buffer is in exactly one place: the pool,
\* the task's buff, or the rendezvous or leftover cursor of one link that has
\* a strong reference.  A link keeps the buffer as long as bytes of its
\* datagram are unread, and only so long; so a task that waits for the buffer
\* waits for a link that can still be read or dropped.
BufferReturnedOnce ==
    /\ \A l \in Listeners :
          /\ PoolAlive(l) => pool[l] + Outside(l) = PoolSize
          /\ (tpc[l] = "take" /\ pool[l] = 0) =>
                \E k \in Links : lis[k] = l /\ Alive(k) /\ HeldBuffers(k) = 1
    /\ \A k \in Links :
          /\ ref[k] = "dead" => HeldBuffers(k) = 0
          /\ leftover[k] # None => leftover[k][2] < leftover[k][3]
          /\ \A i \in 1..Len(delivered[k]) :
                LET d == delivered[k][i] IN
                    (Alive(k) /\ readLog[d] # Payload(d)) =>
                        \/ input[k] # None /\ input[k][1] = d
                        \/ leftover[k] # None /\ leftover[k][1] = d

\* the buffer is back in the pool after one datagram was drained by reads
\* and another was dropped on a stale table entry
DrainedAndDropped ==
    \E l \in Listeners, k \in Links, d, e \in Dgrams :
        /\ lis[k] = l /\ taken[k] = <<d>> /\ dgLen[d] > 0 /\ readLog[d] = Payload(d)
        /\ fate[e] = "stale" /\ dgSender[e] = dst[k]
        /\ PoolAlive(l) /\ pool[l] = PoolSize

\* C15: close on an Unconnected link leaves the table without entry for the
\* link's (src, dst) and changes nothing else: the other entries, the socket,
\* the task, the registry, the flags, the links and their buffers stay as
\* they are; close on a Connected link changes nothing of the program's state.
CloseOnlyRemovesEntry ==
    /\ [][\A k \in Links :
            LinkClose(k) =>
                /\ table'[lis[k]][dst[k]] = 0
                /\ \A l \in Listeners, p \in Peers :
                      (l # lis[k] \/ p # dst[k]) => table'[l][p] = table[l][p]
                /\ UNCHANGED <<mgrVars, tpc, tres, pool, buff, res>>
                /\ UNCHANGED <<linkVars, sinkVars, netVars, rdVars, wrVars, conn>>]_vars
    /\ [][\A c \in conn :
            ConnectedClose(c) =>
                UNCHANGED <<mgrVars, taskVars, linkVars, sinkVars, netVars, rdVars, wrVars, conn>>]_vars

\* a link was closed while its listener is registered and running with the
\* entry of the other peer in place, and a Connected link was closed
ClosedBesideOtherPeer ==
    /\ \E k \in Links, p \in Peers :
          /\ closed[k] /\ table[lis[k]][dst[k]] = 0
          /\ p # dst[k] /\ table[lis[k]][p] # 0
          /\ registry = lis[k] /\ tpc[lis[k]] \in LoopPcs /\ sockOwner = lis[k]
    /\ cclosed # {}

\* C16: the dst_locator of every link returned by new_link(endpoint) has the
\* metadata of that endpoint.
LinkKeepsMetadata ==
    \A c \in conn : c[2][2] = c[1][2]

\* the locators the host addresses A call for, for the registered listener l:
\* one per address of the wildcard's family that is neither loopback nor
\* multicast; the bound locator for a listener not bound to a wildcard
WantedLocators(l, A) ==
    IF lep[l][1] = "0.0.0.0"
    THEN {<<<<a, ListenPort>>, lep[l][2]>> : a \in {b \in A : is_ipv4(b) /\ ~is_loopback(b) /\ ~is_multicast(b)}}
    ELSE IF lep[l][1] = "::"
    THEN {<<<<a, ListenPort>>, lep[l][2]>> : a \in {b \in A : is_ipv6(b) /\ ~is_loopback(b) /\ ~is_multicast(b)}}
    ELSE {<<<<lep[l][1], ListenPort>>, lep[l][2]>>}

\* the sequence q lists every element of the set W exactly once
ListsOnce(q, W) ==
    /\ Len(q) = Cardinality(W)
    /\ {q[i] : i \in 1..Len(q)} = W

\* C17 (as stated): get_locators returns, for the registered listener, exactly
\* one locator per eligible address of the host, or the bound locator.
LocatorsPerHostAddress ==
    [][\A A \in SUBSET HostAddrs, ok \in BOOLEAN :
        (GetLocators(A, ok) /\ registry # 0) => ListsOnce(locs', WantedLocators(registry, A))]_vars

\* C17 (amended): the same when the enumeration of the host addresses
\* succeeds; when it fails nothing is returned for a wildcard listener.  The
\* wildcard itself is never returned, and nothing without a listener.
LocatorsPerEnumeratedAddress ==
    [][\A A \in SUBSET HostAddrs, ok \in BOOLEAN :
        GetLocators(A, ok) =>
            /\ registry = 0 => locs' = <<>>
            /\ (registry # 0 /\ (ok \/ lep[registry][1] \notin {"0.0.0.0", "::"})) =>
                  ListsOnce(locs', WantedLocators(registry, A))
            /\ (registry # 0 /\ ~ok /\ lep[registry][1] \in {"0.0.0.0", "::"}) => locs' = <<>>
            /\ \A i \in 1..Len(locs') :
                  /\ locs'[i][1][1] \notin {"0.0.0.0", "::"}
                  /\ locs'[i][1][2] = ListenPort
                  /\ locs'[i][2] = lep[registry][2]]_vars

\* get_locators has expanded an IPv4 wildcard listener with metadata on a host
\* that has loopback, multicast, IPv6 and one eligible IPv4 address
WildcardExpanded ==
    /\ host = <<HostAddrs, TRUE>>
    /\ registry # 0 /\ lep[registry] = <<"0.0.0.0", "a=1">>
    /\ locs = <<<<<<"10.0.0.1", ListenPort>>, "a=1">>>>

\* the bytes of the datagrams the reads of link k have taken, in order
RECURSIVE TakenStream(_, _)
TakenStream(k, n) == IF n = 0 THEN <<>> ELSE TakenStream(k, n - 1) \o Payload(taken[k][n])

\* C18: a read_exact call copies the bytes of the link's datagrams in order,
\* from where the earlier reads stopped; it has returned only with exactly
\* buffer.len() bytes copied; what it did not copy of the last datagram it
\* took is in the leftover cursor.
ReadExactFills ==
    \A r \in Readers :
        xpc[r] # "idle" =>
            LET k == xlink[r]
                all == TakenStream(k, Len(taken[k]))
                upto == xfrom[r] + Len(xbytes[r])
            IN /\ Len(xbytes[r]) <= xlen[r]
               /\ xpc[r] = "done" => Len(xbytes[r]) = xlen[r]
               /\ upto <= Len(all)
               /\ xbytes[r] = SubSeq(all, xfrom[r] + 1, upto)
               /\ ref[k] = "held" =>
                    /\ ReturnedLen(k, Len(taken[k])) = upto
                    /\ upto < Len(all) =>
                          /\ leftover[k] # None
                          /\ leftover[k][3] - leftover[k][2] = Len(all) - upto
                    /\ upto = Len(all) => leftover[k] = None

\* a read_exact call has returned after it took an empty datagram and then a
\* longer one, part of which is left in the cursor
ExactAcrossEmptyDatagram ==
    \E r \in Readers, k \in Links :
        /\ xpc[r] = "done" /\ xlink[r] = k /\ xlen[r] > 0 /\ xfrom[r] = 0
        /\ Len(taken[k]) = 2 /\ dgLen[taken[k][1]] = 0
        /\ leftover[k] # None /\ leftover[k][1] = taken[k][2] /\ leftover[k][2] = xlen[r]

\* C19: a datagram is put into a link's rendezvous only after the link was
\* created, inserted into the table and sent to the NewLinkSink; when the link
\* is sent to the sink nothing has been put into its rendezvous.
PublishBeforePut ==
    /\ [][\A k \in Links :
            delivered'[k] # delivered[k] => (published[k] /\ first[k] # 0 /\ k <= nextK)]_vars
    /\ [][\A k \in Links :
            (published'[k] /\ ~published[k]) => (first[k] # 0 /\ delivered[k] = <<>> /\ input[k] = None)]_vars
    /\ [](\A k \in Links : (delivered[k] # <<>> \/ input[k] # None) => published[k])

\* the first datagram of a peer is in the rendezvous of the link published
\* for it, which the session layer has not taken from the sink yet
FirstPutAfterPublish ==
    \E k \in Links :
        published[k] /\ ref[k] = "sink" /\ delivered[k] = <<first[k]>> /\ input[k] # None

\* C20: every put finds the rendezvous empty: the task puts a datagram into a
\* link's rendezvous only when the reads have taken what was put before, and
\* while the task has a datagram in hand no rendezvous of its listener holds one.
NoPutOnFullRendezvous ==
    /\ [][\A k \in Links :
            delivered'[k] # delivered[k] =>
                (input[k] = None /\ input'[k] # None /\ Len(taken[k]) = Len(delivered[k]))]_vars
    /\ [](\A l \in Listeners, k \in Links :
            (lis[k] = l /\ tpc[l] \in {"recv", "throttle", "lookup", "send", "upgrade"}) => input[k] = None)

\* a second datagram has been put into a link's rendezvous after the first was taken
SecondPutAfterTake ==
    \E k \in Links :
        Len(delivered[k]) = 2 /\ taken[k] = <<delivered[k][1]>> /\ input[k] # None

\* C21: a receive error leaves the task in its loop: it sleeps, then is back
\* at the loop head with its buffer in the pool, where it goes on to the next
\* receive while active is set; the error and the sleep change neither the
\* link table nor the registry, the links or the result of the task.
RecvErrorIsTransient ==
    /\ [][\A l \in Listeners :
            (tpc[l] = "recv" /\ tpc'[l] \notin {"recv", "lookup"} /\ ~signal[l]) =>
                /\ tpc'[l] = "throttle"
                /\ UNCHANGED <<table, registry, tres, sockOwner, linkVars, sinkVars, histVars>>]_vars
    /\ [][\A l \in Listeners :
            (tpc[l] = "throttle" /\ tpc'[l] # "throttle") =>
                /\ tpc'[l] = "loop" /\ pool'[l] = PoolSize
                /\ UNCHANGED <<table, registry, tres, sockOwner, linkVars, sinkVars, histVars>>]_vars
    /\ [][\A l \in Listeners :
            (tpc[l] = "loop" /\ active[l] /\ tpc'[l] # "loop") => tpc'[l] = "take"]_vars
    /\ [](\A l \in Listeners :
            tpc[l] = "throttle" => (sockOwner = l /\ tres[l] = "none" /\ pool[l] = 0))

\* the task sleeps after a receive error that followed a delivered datagram:
\* the listener is registered and active, and the link is in the table
ThrottledWithLink ==
    \E l \in Listeners, k \in Links :
        /\ tpc[l] = "throttle" /\ registry = l /\ active[l]
        /\ ref[k] = "held" /\ lis[k] = l /\ table[l][dst[k]] = k /\ taken[k] # <<>>

\* C22: a close of a link whose (src, dst) entry refers to another, newer
\* link leaves that entry in place.
CloseLeavesNewerLink ==
    [][\A k \in Links :
        (LinkClose(k) /\ table[lis[k]][dst[k]] \notin {0, k}) =>
            table'[lis[k]][dst[k]] = table[lis[k]][dst[k]]]_vars

\* C23: a listener that new_listener has inserted is in the registry as long
\* as its task runs and del_listener has not removed it.
RegisteredWhileRunning ==
    \A l \in Listeners :
        (nlpc[l] = "done" /\ tpc[l] \in {"start"} \cup LoopPcs /\ delpc[l] = "none")
            => registry = l

\* the bytes the reads of link k have returned, in the order of the takes
RECURSIVE ReturnedStream(_, _)
ReturnedStream(k, n) ==
    IF n = 0 THEN <<>> ELSE ReturnedStream(k, n - 1) \o readLog[taken[k][n]]
\* the bytes of the datagrams delivered to link k, in the order of the puts
RECURSIVE DeliveredStream(_, _)
DeliveredStream(k, n) ==
    IF n = 0 THEN <<>> ELSE DeliveredStream(k, n - 1) \o Payload(delivered[k][n])

\* C24: with several tasks reading one link, at most one of them waits on the
\* rendezvous (it holds the leftover lock), the bytes returned by all the reads
\* together are a prefix of the bytes of the delivered datagrams in datagram
\* order, and each read step appends bytes of one datagram only.
ConcurrentReadsSerialized ==
    /\ [](\A k \in Links :
            /\ Cardinality({r \in Readers : rpc[r] = "take" /\ rlink[r] = k}) <= 1
            /\ (\E r \in Readers : rpc[r] = "take" /\ rlink[r] = k) => leftover[k] = None
            /\ IsPrefix(ReturnedStream(k, Len(taken[k])),
                        DeliveredStream(k, Len(delivered[k])))
            /\ (ref[k] = "held" /\ leftover[k] = None) =>
                    ReturnedStream(k, Len(taken[k])) = DeliveredStream(k, Len(taken[k])))
    /\ [][\A d \in Dgrams :
            readLog'[d] # readLog[d] =>
                /\ IsPrefix(readLog[d], readLog'[d])
                /\ \A e \in Dgrams \ {d} : readLog'[e] = readLog[e]
                /\ \E r \in Readers :
                      /\ rpc[r] \in {"lock", "take"} /\ rpc'[r] = "idle"
                      /\ \A q \in Readers \ {r} : rpc'[q] = rpc[q]]_vars

\* two tasks read the same link: one holds the lock and waits on the
\* rendezvous, the other waits for the lock, after the reads have returned
\* two whole datagrams of the link
TwoReadersOneLink ==
    \E k \in Links :
        /\ rpc["r1"] = "take" /\ rlink["r1"] = k
        /\ rpc["r2"] = "lock" /\ rlink["r2"] = k
        /\ Len(taken[k]) = 2
        /\ \A i \in 1..2 : dgLen[taken[k][i]] = MaxLen

====
